---- MODULE Spec2Model ----
(***************************************************************************)
(* Model of the JSON-schema compatibility gate: the recursive diff engine  *)
(* collectBreakingChanges and the two commit-gate loops that drive it      *)
(* (main, and the json-schema-diff based script).                          *)
(***************************************************************************)
EXTENDS Integers, Sequences, FiniteSets, TLC

VARIABLES oldSchema, newSchema, reasons, pc,
          files, idx, hasBreaking, exitCode, examined, engineCalls

vars == <<oldSchema, newSchema, reasons, pc,
          files, idx, hasBreaking, exitCode, examined, engineCalls>>

gateVars == <<files, idx, hasBreaking, exitCode, examined, engineCalls>>

(***************************************************************************)
(* JavaScript values as produced by JSON.parse, plus undefined and the     *)
(* function values found on Object.prototype.  An object keeps its keys in *)
(* Object.keys order as a sequence of <<key, value>> pairs.                *)
(***************************************************************************)
Str(s) == [k |-> "str", v |-> s]
Num(n) == [k |-> "num", v |-> n]
Bool(b) == [k |-> "bool", v |-> b]
Null == [k |-> "null", v |-> 0]
Undefined == [k |-> "undef", v |-> 0]
Arr(s) == [k |-> "arr", v |-> s]
Obj(s) == [k |-> "obj", v |-> s]
Fn(name) == [k |-> "fn", v |-> name]

EmptyObject == Obj(<<>>)

\* Function-valued members every plain object inherits from Object.prototype.
ObjectPrototypeMethods ==
    {"constructor", "toString", "valueOf", "hasOwnProperty",
     "isPrototypeOf", "propertyIsEnumerable", "toLocaleString"}

ANNOTATION_KEYS == {"description", "title", "$id", "$comment", "examples"}

\* ToBoolean, as applied by && and || and by if.
Truthy(v) ==
    CASE v.k = "null" -> FALSE
      [] v.k = "undef" -> FALSE
      [] v.k = "bool" -> v.v
      [] v.k = "num" -> v.v # 0
      [] v.k = "str" -> v.v # ""
      [] OTHER -> TRUE

isObject(v) == v.k = "obj"

isArray(v) == v.k = "arr"

Keys(o) == [i \in 1..Len(o.v) |-> o.v[i][1]]

\* Object.prototype.hasOwnProperty.call(v, key), for the keyword names used.
HasOwn(v, key) == v.k = "obj" /\ \E i \in 1..Len(v.v) : v.v[i][1] = key

OwnValue(o, key) == o.v[CHOOSE i \in 1..Len(o.v) : o.v[i][1] = key][2]

\* v.key (v not null or undefined): own value, else what the prototype
\* chain gives, else undefined.
Get(v, key) ==
    IF HasOwn(v, key) THEN OwnValue(v, key)
    ELSE IF key \in ObjectPrototypeMethods /\ v.k \notin {"null", "undef"}
         THEN Fn(key)
         ELSE Undefined

\* key in o, for a plain object o: own or inherited.
In(key, o) == HasOwn(o, key) \/ key \in ObjectPrototypeMethods

\* a || b on values
Or(a, b) == IF Truthy(a) THEN a ELSE b

IsPrimitive(v) == v.k \in {"str", "num", "bool", "null", "undef"}

\* a === b where a and b come from two separately parsed documents: primitives
\* compare by value, objects and arrays by identity (never the same object).
StrictEquals(a, b) == IsPrimitive(a) /\ a.k = b.k /\ a.v = b.v

RECURSIVE JoinWith(_, _, _)
JoinWith(parts, sep, i) ==
    IF i > Len(parts) THEN ""
    ELSE IF i = Len(parts) THEN parts[i]
    ELSE parts[i] \o sep \o JoinWith(parts, sep, i + 1)

\* String(v), as a template literal `${v}` converts it.
RECURSIVE TemplateString(_)
TemplateString(v) ==
    CASE v.k = "str" -> v.v
      [] v.k = "num" -> ToString(v.v)
      [] v.k = "bool" -> IF v.v THEN "true" ELSE "false"
      [] v.k = "null" -> "null"
      [] v.k = "undef" -> "undefined"
      [] v.k = "obj" -> "[object Object]"
      [] v.k = "fn" -> "function " \o v.v \o "() { [native code] }"
      [] v.k = "arr" ->
           JoinWith([i \in 1..Len(v.v) |->
                        IF v.v[i].k \in {"null", "undef"} THEN ""
                        ELSE TemplateString(v.v[i])], ",", 1)

\* JSON.stringify(v); the result for undefined is undefined, which prints
\* as, and compares like, the bare word (no JSON text is that word).
RECURSIVE JSONstringify(_)
JSONstringify(v) ==
    CASE v.k = "str" -> "\"" \o v.v \o "\""
      [] v.k = "num" -> ToString(v.v)
      [] v.k = "bool" -> IF v.v THEN "true" ELSE "false"
      [] v.k = "null" -> "null"
      [] v.k = "undef" -> "undefined"
      [] v.k = "fn" -> "undefined"
      [] v.k = "arr" ->
           "[" \o JoinWith([i \in 1..Len(v.v) |->
                              IF v.v[i].k \in {"undef", "fn"} THEN "null"
                              ELSE JSONstringify(v.v[i])], ",", 1) \o "]"
      [] v.k = "obj" ->
           "{" \o JoinWith([i \in 1..Len(v.v) |->
                              "\"" \o v.v[i][1] \o "\":" \o JSONstringify(v.v[i][2])],
                           ",", 1) \o "}"

(***************************************************************************)
(* collectBreakingChanges(oldSchema, newSchema, path)                      *)
(***************************************************************************)
Here(path) == IF path = "" THEN "<root>" ELSE path

\* 1. type
typeRule(old, new, path) ==
    IF Truthy(old) /\ Truthy(new)
       /\ Truthy(Get(old, "type")) /\ Truthy(Get(new, "type"))
    THEN IF ~StrictEquals(Get(old, "type"), Get(new, "type"))
         THEN << Here(path) \o ": type changed from \"" \o TemplateString(Get(old, "type"))
                 \o "\" to \"" \o TemplateString(Get(new, "type")) \o "\"" >>
         ELSE << >>
    ELSE << >>

\* 2. additionalProperties
additionalPropertiesRule(old, new, path) ==
    IF HasOwn(Or(old, EmptyObject), "additionalProperties")
       \/ HasOwn(Or(new, EmptyObject), "additionalProperties")
    THEN LET oldAP == Get(Or(old, EmptyObject), "additionalProperties")
             newAP == Get(Or(new, EmptyObject), "additionalProperties")
         IN IF JSONstringify(oldAP) # JSONstringify(newAP)
            THEN << Here(path) \o ": additionalProperties changed from "
                    \o JSONstringify(oldAP) \o " to " \o JSONstringify(newAP) >>
            ELSE << >>
    ELSE << >>

\* Array.isArray(s && s.required) ? s.required : []
RequiredOf(s) ==
    LET r == IF Truthy(s) THEN Get(s, "required") ELSE s
    IN IF isArray(r) THEN r.v ELSE << >>

Includes(list, x) == \E i \in 1..Len(list) : StrictEquals(list[i], x)

RECURSIVE requiredFrom(_, _, _, _)
requiredFrom(oldReq, newReq, path, i) ==
    IF i > Len(newReq) THEN << >>
    ELSE (IF ~Includes(oldReq, newReq[i])
          THEN << Here(path) \o ": property \"" \o TemplateString(newReq[i])
                  \o "\" became required" >>
          ELSE << >>)
         \o requiredFrom(oldReq, newReq, path, i + 1)

\* The required loop walking the new list from its end.
requiredRule_reversed(old, new, path) ==
    LET newReq == RequiredOf(new)
    IN requiredFrom(RequiredOf(old),
                    [i \in 1..Len(newReq) |-> newReq[Len(newReq) + 1 - i]], path, 1)

\* 3. required
requiredRule(old, new, path) ==
    requiredFrom(RequiredOf(old), RequiredOf(new), path, 1)

\* isObject(s) && isObject(s.properties) ? s.properties : {}
PropertiesOf(s) ==
    IF isObject(s) /\ isObject(Get(s, "properties"))
    THEN Get(s, "properties") ELSE EmptyObject

\* The exclusion list of rule 5 without the annotation keywords.
RuleFiveSkips_noAnnotations(key) ==
    key \in {"type", "properties", "required", "additionalProperties"}

RuleFiveSkips(key) ==
    key \in {"type", "properties", "required", "additionalProperties"}
    \/ key \in ANNOTATION_KEYS

RECURSIVE collectBreakingChanges(_, _, _)
RECURSIVE propertiesFrom(_, _, _, _)
RECURSIVE remainingFrom(_, _, _, _)

\* 4. properties: the loop over Object.keys(oldProps), from index i
propertiesFrom(oldProps, newProps, path, i) ==
    IF i > Len(oldProps.v) THEN << >>
    ELSE LET key == oldProps.v[i][1]
         IN (IF ~In(key, newProps)
             THEN << Here(path) \o ": property \"" \o key \o "\" was removed" >>
             ELSE collectBreakingChanges(
                      oldProps.v[i][2], Get(newProps, key),
                      IF path # "" THEN path \o ".properties." \o key
                      ELSE "properties." \o key))
            \o propertiesFrom(oldProps, newProps, path, i + 1)

\* 5. the loop over Object.keys(oldSchema), from index i
remainingFrom(old, new, path, i) ==
    IF i > Len(old.v) THEN << >>
    ELSE LET key == old.v[i][1]
             oldVal == old.v[i][2]
             newVal == Get(new, key)
             childPath == IF path # "" THEN path \o "." \o key ELSE key
         IN (IF RuleFiveSkips(key) THEN << >>
             ELSE IF ~HasOwn(new, key)
             THEN << Here(path) \o ": keyword \"" \o key \o "\" was removed" >>
             ELSE IF isObject(oldVal) /\ isObject(newVal)
             THEN collectBreakingChanges(oldVal, newVal, childPath)
             ELSE IF isArray(oldVal) /\ isArray(newVal)
             THEN IF JSONstringify(oldVal) # JSONstringify(newVal)
                  THEN << childPath \o ": array value changed from "
                          \o JSONstringify(oldVal) \o " to " \o JSONstringify(newVal) >>
                  ELSE << >>
             ELSE IF JSONstringify(oldVal) # JSONstringify(newVal)
                  THEN << childPath \o ": value changed from "
                          \o JSONstringify(oldVal) \o " to " \o JSONstringify(newVal) >>
                  ELSE << >>)
            \o remainingFrom(old, new, path, i + 1)

\* The properties rule also reporting the keys only the new map has.
propertiesRule_flagsAdded(old, new, path) ==
    propertiesFrom(PropertiesOf(old), PropertiesOf(new), path, 1)
    \o LET added == SelectSeq(Keys(PropertiesOf(new)),
                              LAMBDA key : ~HasOwn(PropertiesOf(old), key))
       IN [i \in 1..Len(added) |->
              Here(path) \o ": property \"" \o added[i] \o "\" was added"]

propertiesRule(old, new, path) ==
    propertiesFrom(PropertiesOf(old), PropertiesOf(new), path, 1)

remainingRule(old, new, path) ==
    IF isObject(old) /\ isObject(new)
    THEN remainingFrom(old, new, path, 1)
    ELSE << >>

collectBreakingChanges(old, new, path) ==
    typeRule(old, new, path)
    \o additionalPropertiesRule(old, new, path)
    \o requiredRule(old, new, path)
    \o propertiesRule(old, new, path)
    \o remainingRule(old, new, path)

(***************************************************************************)
(* The documents the engine is run on.                                     *)
(***************************************************************************)
MaxReq == 2

PropertyNames == {"a", "b"}

TypeValues == {Str("string"), Str("number"), Arr(<<Str("string"), Str("null")>>)}

\* Sub-schemas found under properties, object-valued keywords and arrays.
SubSchemas ==
    { EmptyObject,
      Obj(<< <<"type", Str("string")>> >>),
      Obj(<< <<"type", Str("string")>>, <<"description", Str("d1")>> >>),
      Obj(<< <<"type", Arr(<<Str("string"), Str("null")>>)>> >>),
      Obj(<< <<"enum", Arr(<<Num(1)>>)>> >>),
      Obj(<< <<"properties", Obj(<< <<"b", Obj(<< <<"type", Str("string")>> >>)>> >>)>> >>),
      Obj(<< <<"properties",
               Obj(<< <<"b", Obj(<< <<"type", Str("number")>>,
                                    <<"description", Str("d2")>> >>)>> >>)>> >>),
      Bool(TRUE) }

FlatMembers ==
    { <<"type", t>> : t \in TypeValues }
    \cup { <<"description", Str("d1")>>, <<"description", Str("d2")>> }
    \cup { <<"enum", Arr(<<Num(1)>>)>>, <<"enum", Arr(<<Num(1), Num(2)>>)>> }
    \cup { <<"additionalProperties", Bool(FALSE)>>, <<"additionalProperties", Bool(TRUE)>> }
    \cup { <<"minLength", Num(1)>>, <<"minLength", Num(2)>> }

\* Nodes of at most two keywords, in either key order.
FlatDocs ==
    { EmptyObject }
    \cup { Obj(<<m>>) : m \in FlatMembers }
    \cup { Obj(<<m[1], m[2]>>) :
             m \in { p \in FlatMembers \X FlatMembers : p[1][1] # p[2][1] } }

RequiredLists ==
    UNION { [1..n -> { Str(x) : x \in PropertyNames }] : n \in 0..MaxReq }

RequiredDocs ==
    { Obj(<< <<"required", Arr(r)>> >>) : r \in RequiredLists }
    \cup { Obj(<< <<"properties", Obj(<< <<"a", Obj(<< <<"type", Str("string")>> >>)>> >>)>>,
                  <<"required", Arr(r)>> >>) : r \in RequiredLists }

PropertyKeys == {"a", "constructor"}

PropertyMaps ==
    { EmptyObject }
    \cup { Obj(<< <<key, s>> >>) : key \in PropertyKeys, s \in SubSchemas }
    \cup { Obj(<< <<p[1], s>>, <<p[2], t>> >>) :
             p \in { q \in PropertyKeys \X PropertyKeys : q[1] # q[2] },
             s \in SubSchemas, t \in SubSchemas }

PropertyDocs == { Obj(<< <<"properties", m>> >>) : m \in PropertyMaps }

NestedDocs ==
    { Obj(<< <<"items", s>> >>) : s \in SubSchemas }
    \cup { Obj(<< <<"oneOf", Arr(<<s>>)>> >>) : s \in SubSchemas }
    \cup { Obj(<< <<"additionalProperties", s>> >>) : s \in SubSchemas }

NonObjects == { Bool(TRUE), Bool(FALSE), Null, Str("s"), Num(0), Arr(<< >>) }

Docs == FlatDocs \cup RequiredDocs \cup PropertyDocs \cup NestedDocs \cup NonObjects

(***************************************************************************)
(* The engine run once on a pair of separately parsed documents.           *)
(***************************************************************************)
GateIdle ==
    /\ files = << >> /\ idx = 1 /\ hasBreaking = FALSE /\ exitCode = -1
    /\ examined = {} /\ engineCalls = {}

InitEngine ==
    /\ oldSchema \in Docs
    /\ newSchema \in Docs
    /\ reasons = << >>
    /\ pc = "parsed"
    /\ GateIdle

Compare ==
    /\ pc = "parsed"
    /\ reasons' = collectBreakingChanges(oldSchema, newSchema, "")
    /\ pc' = "compared"
    /\ UNCHANGED <<oldSchema, newSchema>>
    /\ UNCHANGED gateVars

NextEngine == Compare

SpecEngine == InitEngine /\ [][NextEngine]_vars

(***************************************************************************)
(* The commit gate main(): one iteration of its loop per action.  A git    *)
(* call ends "ok" (status 0), "fail" (non-zero status) or "error"          *)
(* (spawnSync reports res.error, which git() throws).                      *)
(***************************************************************************)
MaxFiles == 2

GateDocs == { Obj(<< <<"type", Str("string")>> >>), Obj(<< <<"type", Str("number")>> >>) }

\* stdout of git show: text JSON.parse accepts (giving doc) or rejects.
Parsable(d) == [json |-> TRUE, doc |-> d]
Unparsable == [json |-> FALSE, doc |-> EmptyObject]

GitResults ==
    { [st |-> "fail", out |-> Unparsable], [st |-> "error", out |-> Unparsable],
      [st |-> "ok", out |-> Unparsable] }
    \cup { [st |-> "ok", out |-> Parsable(d)] : d \in GateDocs }

MainFiles == [head : BOOLEAN, oldRes : GitResults, newRes : GitResults]

InitMain ==
    /\ files \in UNION { [1..n -> MainFiles] : n \in 0..MaxFiles }
    /\ idx = 1
    /\ hasBreaking = FALSE
    /\ exitCode = -1
    /\ examined = {}
    /\ engineCalls = {}
    /\ oldSchema = Undefined /\ newSchema = Undefined /\ reasons = << >>
    /\ pc = "main"

InLoop(p) == pc = p /\ idx <= Len(files)

NextFile ==
    /\ idx' = idx + 1
    /\ examined' = examined \cup {idx}
    /\ UNCHANGED <<files, pc, exitCode>>

\* !headExists.ok: new file, skipped
NewFile ==
    /\ InLoop("main")
    /\ ~files[idx].head
    /\ NextFile
    /\ UNCHANGED <<hasBreaking, engineCalls, oldSchema, newSchema, reasons>>

\* git() throws out of the loop; main().catch exits 1
ReadFatal ==
    /\ InLoop("main")
    /\ files[idx].head
    /\ files[idx].oldRes.st = "error" \/ files[idx].newRes.st = "error"
    /\ exitCode' = 1
    /\ pc' = "exited"
    /\ examined' = examined \cup {idx}
    /\ UNCHANGED <<files, idx, hasBreaking, engineCalls, oldSchema, newSchema, reasons>>

\* !oldRes.ok || !newRes.ok
ReadFailure ==
    /\ InLoop("main")
    /\ files[idx].head
    /\ files[idx].oldRes.st # "error" /\ files[idx].newRes.st # "error"
    /\ files[idx].oldRes.st # "ok" \/ files[idx].newRes.st # "ok"
    /\ hasBreaking' = TRUE
    /\ NextFile
    /\ UNCHANGED <<engineCalls, oldSchema, newSchema, reasons>>

BothRead(f) == f.head /\ f.oldRes.st = "ok" /\ f.newRes.st = "ok"

\* JSON.parse throws on either text
ParseFailure ==
    /\ InLoop("main")
    /\ BothRead(files[idx])
    /\ ~files[idx].oldRes.out.json \/ ~files[idx].newRes.out.json
    /\ hasBreaking' = TRUE
    /\ NextFile
    /\ UNCHANGED <<engineCalls, oldSchema, newSchema, reasons>>

\* The loop body assigning the flag from the current file alone.
CheckFile_overwrites ==
    /\ InLoop("main")
    /\ BothRead(files[idx])
    /\ files[idx].oldRes.out.json /\ files[idx].newRes.out.json
    /\ oldSchema' = files[idx].oldRes.out.doc
    /\ newSchema' = files[idx].newRes.out.doc
    /\ reasons' = collectBreakingChanges(oldSchema', newSchema', "")
    /\ engineCalls' = engineCalls \cup {idx}
    /\ hasBreaking' = (Len(reasons') > 0)
    /\ NextFile

CheckFile ==
    /\ InLoop("main")
    /\ BothRead(files[idx])
    /\ files[idx].oldRes.out.json /\ files[idx].newRes.out.json
    /\ oldSchema' = files[idx].oldRes.out.doc
    /\ newSchema' = files[idx].newRes.out.doc
    /\ reasons' = collectBreakingChanges(oldSchema', newSchema', "")
    /\ engineCalls' = engineCalls \cup {idx}
    /\ hasBreaking' = IF Len(reasons') > 0 THEN TRUE ELSE hasBreaking
    /\ NextFile

MainVerdict ==
    /\ pc = "main"
    /\ idx > Len(files)
    /\ exitCode' = IF hasBreaking THEN 1 ELSE 0
    /\ pc' = "exited"
    /\ UNCHANGED <<files, idx, hasBreaking, examined, engineCalls,
                   oldSchema, newSchema, reasons>>

NextMain ==
    \/ NewFile
    \/ ReadFatal
    \/ ReadFailure
    \/ ParseFailure
    \/ CheckFile
    \/ MainVerdict

SpecMain == InitMain /\ [][NextMain]_vars

(***************************************************************************)
(* The json-schema-diff based gate script: the same loop, the comparison   *)
(* left to the external tool, whose exit status is an input.               *)
(***************************************************************************)
CallResults == {"ok", "fail", "error"}

ScriptFiles == [head : BOOLEAN, oldRes : CallResults, newRes : CallResults,
                diffStatus : {0, 1}]

InitScript ==
    /\ files \in UNION { [1..n -> ScriptFiles] : n \in 0..MaxFiles }
    /\ idx = 1
    /\ hasBreaking = FALSE
    /\ exitCode = -1
    /\ examined = {}
    /\ engineCalls = {}
    /\ oldSchema = Undefined /\ newSchema = Undefined /\ reasons = << >>
    /\ pc = "script"

ScriptThrows(f) == (f.head /\ f.oldRes = "error") \/ f.newRes = "error"

\* run() throws; the outer catch exits 1
ScriptFatal ==
    /\ InLoop("script")
    /\ ScriptThrows(files[idx])
    /\ exitCode' = 1
    /\ pc' = "exited"
    /\ examined' = examined \cup {idx}
    /\ UNCHANGED <<files, idx, hasBreaking, engineCalls, oldSchema, newSchema, reasons>>

\* !newRes.ok: warn and continue
ScriptStagedFailure ==
    /\ InLoop("script")
    /\ ~ScriptThrows(files[idx])
    /\ files[idx].newRes = "fail"
    /\ NextFile
    /\ UNCHANGED <<hasBreaking, engineCalls, oldSchema, newSchema, reasons>>

\* result.status !== 0, with or without recognisable lines
ScriptIncompatible ==
    /\ InLoop("script")
    /\ ~ScriptThrows(files[idx])
    /\ files[idx].newRes = "ok"
    /\ files[idx].diffStatus # 0
    /\ hasBreaking' = TRUE
    /\ engineCalls' = engineCalls \cup {idx}
    /\ NextFile
    /\ UNCHANGED <<oldSchema, newSchema, reasons>>

ScriptCompatible ==
    /\ InLoop("script")
    /\ ~ScriptThrows(files[idx])
    /\ files[idx].newRes = "ok"
    /\ files[idx].diffStatus = 0
    /\ engineCalls' = engineCalls \cup {idx}
    /\ NextFile
    /\ UNCHANGED <<hasBreaking, oldSchema, newSchema, reasons>>

ScriptVerdict ==
    /\ pc = "script"
    /\ idx > Len(files)
    /\ exitCode' = IF hasBreaking THEN 1 ELSE 0
    /\ pc' = "exited"
    /\ UNCHANGED <<files, idx, hasBreaking, examined, engineCalls,
                   oldSchema, newSchema, reasons>>

NextScript ==
    \/ ScriptFatal
    \/ ScriptStagedFailure
    \/ ScriptIncompatible
    \/ ScriptCompatible
    \/ ScriptVerdict

SpecScript == InitScript /\ [][NextScript]_vars

(***************************************************************************)
(* Relations between two documents used to state the claims.               *)
(***************************************************************************)
Count(seq, x) == Cardinality({ i \in 1..Len(seq) : seq[i] = x })

NonAnnotation(key) == key \notin ANNOTATION_KEYS

\* Keywords whose value is data, not a schema.
DataKeywords == {"type", "required", "enum", "const", "default", "minLength"}

RECURSIVE Flatten(_, _)
Flatten(seqs, i) ==
    IF i > Len(seqs) THEN << >> ELSE seqs[i] \o Flatten(seqs, i + 1)

\* Every type keyword, at any depth, names a single type.
RECURSIVE TypesAreNames(_)
TypesAreNames(v) ==
    IF isObject(v)
    THEN \A i \in 1..Len(v.v) :
            /\ v.v[i][1] = "type" => v.v[i][2].k = "str"
            /\ TypesAreNames(v.v[i][2])
    ELSE IF isArray(v)
    THEN \A i \in 1..Len(v.v) : TypesAreNames(v.v[i])
    ELSE TRUE

\* The document with the annotation keywords of every node removed, at any
\* nesting level: in property sub-schemas, in schema-valued keywords and in
\* the elements of array-valued ones.
RECURSIVE StripAnnotations(_)
StripAnnotations(v) ==
    IF isObject(v)
    THEN LET kept == SelectSeq(v.v, LAMBDA m : NonAnnotation(m[1]))
         IN Obj([i \in 1..Len(kept) |->
                   LET key == kept[i][1]
                       val == kept[i][2]
                   IN IF key \in DataKeywords THEN kept[i]
                      ELSE IF key = "properties" /\ isObject(val)
                      THEN <<key, Obj([j \in 1..Len(val.v) |->
                                         <<val.v[j][1], StripAnnotations(val.v[j][2])>>])>>
                      ELSE <<key, StripAnnotations(val)>>])
    ELSE IF isArray(v)
    THEN Arr([i \in 1..Len(v.v) |-> StripAnnotations(v.v[i])])
    ELSE v

\* o and n differ only in annotation keywords of nodes reached from the root
\* through properties entries and object-valued keywords other than
\* additionalProperties (array values and additionalProperties values are equal).
RECURSIVE SameButAnnotations(_, _)
SameButAnnotations(o, n) ==
    IF isObject(o) /\ isObject(n)
    THEN LET ko == SelectSeq(Keys(o), NonAnnotation)
             kn == SelectSeq(Keys(n), NonAnnotation)
         IN /\ ko = kn
            /\ \A i \in 1..Len(ko) :
                 LET a == OwnValue(o, ko[i])
                     b == OwnValue(n, ko[i])
                 IN IF ko[i] = "properties" /\ isObject(a) /\ isObject(b)
                    THEN /\ Keys(a) = Keys(b)
                         /\ \A j \in 1..Len(a.v) :
                              SameButAnnotations(a.v[j][2], b.v[j][2])
                    ELSE IF ko[i] # "additionalProperties" /\ isObject(a) /\ isObject(b)
                    THEN SameButAnnotations(a, b)
                    ELSE a = b
    ELSE o = n

NamesIn(list) == { list[i] : i \in 1..Len(list) }

\* n is o with properties outside n's required list added to properties maps
\* and keywords absent from o added to nodes; everything o has is kept as it
\* is.  With anywhere, nodes inside array values and additionalProperties
\* values count and any keyword may be added; without it they must be equal
\* and the added keywords are not additionalProperties or required.
RECURSIVE Adds(_, _, _)
Adds(o, n, anywhere) ==
    IF isObject(o) /\ isObject(n)
    THEN /\ SelectSeq(Keys(n), LAMBDA key : HasOwn(o, key)) = Keys(o)
         /\ \A i \in 1..Len(n.v) :
              ~HasOwn(o, n.v[i][1]) =>
                 anywhere \/ n.v[i][1] \notin {"additionalProperties", "required"}
         /\ \A i \in 1..Len(o.v) :
              LET key == o.v[i][1]
                  a == o.v[i][2]
                  b == OwnValue(n, key)
              IN IF key \in DataKeywords THEN a = b
                 ELSE IF key = "properties" /\ isObject(a) /\ isObject(b)
                 THEN /\ SelectSeq(Keys(b), LAMBDA p : HasOwn(a, p)) = Keys(a)
                      /\ \A j \in 1..Len(a.v) :
                           Adds(a.v[j][2], OwnValue(b, a.v[j][1]), anywhere)
                      /\ \A j \in 1..Len(b.v) :
                           ~HasOwn(a, b.v[j][1]) =>
                              Str(b.v[j][1]) \notin NamesIn(RequiredOf(n))
                 ELSE IF key = "additionalProperties" /\ ~anywhere THEN a = b
                 ELSE Adds(a, b, anywhere)
    ELSE IF isArray(o) /\ isArray(n) /\ anywhere
    THEN /\ Len(o.v) = Len(n.v)
         /\ \A i \in 1..Len(o.v) : Adds(o.v[i], n.v[i], anywhere)
    ELSE o = n

\* The node reduced to the keywords in K (a non-object is left as it is).
Project(v, K) ==
    IF isObject(v) THEN Obj(SelectSeq(v.v, LAMBDA m : m[1] \in K)) ELSE v

HandledKeywords == {"type", "additionalProperties", "required", "properties"}

Compared == pc = "compared"

(***************************************************************************)
(* Claims about the gate.                                                  *)
(***************************************************************************)
\* What makes a file of main()'s list fail the run.
Failing(f) ==
    /\ f.head
    /\ \/ f.oldRes.st # "ok" \/ f.newRes.st # "ok"
       \/ ~f.oldRes.out.json \/ ~f.newRes.out.json
       \/ collectBreakingChanges(f.oldRes.out.doc, f.newRes.out.doc, "") # << >>

C1_ExitStatus ==
    /\ pc = "exited" =>
          (exitCode # 0 <=> \E i \in 1..Len(files) : Failing(files[i]))
    /\ \A i \in engineCalls : files[i].head

ScriptRetrievalFailed(f) == (f.head /\ f.oldRes = "fail") \/ f.newRes = "fail"

\* C8: a file whose prior or staged content cannot be retrieved makes the run
\* end non-zero, and every file of the list is still examined (stated for the
\* script gate, on runs where no git call throws).
C8_FailureCounted ==
    (pc = "exited" /\ \A i \in 1..Len(files) : ~ScriptThrows(files[i])) =>
        \A i \in 1..Len(files) :
            ScriptRetrievalFailed(files[i]) =>
                exitCode # 0 /\ examined = 1..Len(files)

(***************************************************************************)
(* Claims about the engine.                                                *)
(***************************************************************************)
\* C2: idempotence: two separately parsed copies of one document compare
\* without findings.
C2_Idempotence == (Compared /\ oldSchema = newSchema) => reasons = << >>

RemovedFinding(key) == "<root>: property \"" \o key \o "\" was removed"

\* C3: every key of the old properties that the new properties do not have
\* gets exactly one was-removed finding at the parent path.
C3_RemovalStrictness ==
    (Compared /\ isObject(oldSchema) /\ isObject(newSchema)) =>
        \A i \in 1..Len(PropertiesOf(oldSchema).v) :
            LET key == PropertiesOf(oldSchema).v[i][1]
            IN ~HasOwn(PropertiesOf(newSchema), key) =>
                  Count(reasons, RemovedFinding(key)) = 1

\* C4 as claimed: documents that differ only in annotation keywords, at any
\* nesting level including array elements, compare without findings (stated
\* for documents whose type keywords are single names).
C4_AnnotationImmunityAnywhere ==
    (Compared /\ TypesAreNames(oldSchema)
       /\ StripAnnotations(oldSchema) = StripAnnotations(newSchema))
    => reasons = << >>

\* C4 amended: annotation differences in nodes reached through properties and
\* object-valued keywords other than additionalProperties add no finding: the
\* result is that of comparing the old document with a copy of itself.
C4_AnnotationImmunity ==
    (Compared /\ SameButAnnotations(oldSchema, newSchema))
    => reasons = collectBreakingChanges(oldSchema, oldSchema, "")

\* C4 witness: a nested annotation was changed, added or removed.
C4_Witness ==
    /\ Compared
    /\ SameButAnnotations(oldSchema, newSchema)
    /\ oldSchema # newSchema
    /\ HasOwn(oldSchema, "properties")

\* C5 as claimed: adding a non-required property or any absent keyword, at
\* any place a node occurs, yields no finding (stated for documents whose
\* type keywords are single names).
C5_AdditiveSafetyAnywhere ==
    (Compared /\ TypesAreNames(oldSchema) /\ Adds(oldSchema, newSchema, TRUE))
    => reasons = << >>

\* C5 amended: adding non-required properties, or keywords other than
\* additionalProperties and required, to nodes reached through properties
\* and object-valued keywords other than additionalProperties adds no
\* finding: the result is that of comparing the old document with a copy of
\* itself.
C5_AdditiveSafety ==
    (Compared /\ Adds(oldSchema, newSchema, FALSE))
    => reasons = collectBreakingChanges(oldSchema, oldSchema, "")

\* C5 witness: a property was added next to an existing one.
C5_Witness ==
    /\ Compared
    /\ Adds(oldSchema, newSchema, FALSE)
    /\ Len(PropertiesOf(oldSchema).v) = 1
    /\ Len(PropertiesOf(newSchema).v) = 2

BecameRequired(name) == "<root>: property \"" \o name \o "\" became required"

\* C6: a name in the new required list and not in the old one gets exactly
\* one became-required finding; any other name gets none.
C6_RequiredTightening ==
    (Compared /\ isObject(oldSchema) /\ isObject(newSchema)) =>
        \A name \in PropertyNames :
            LET tightened == /\ Str(name) \in NamesIn(RequiredOf(newSchema))
                             /\ Str(name) \notin NamesIn(RequiredOf(oldSchema))
            IN Count(reasons, BecameRequired(name)) = (IF tightened THEN 1 ELSE 0)

\* C7: a node that is not an object compares exactly as the empty object.
C7_NonObjectAsEmpty ==
    Compared =>
        /\ ~isObject(newSchema) =>
              reasons = collectBreakingChanges(oldSchema, EmptyObject, "")
        /\ ~isObject(oldSchema) =>
              reasons = collectBreakingChanges(EmptyObject, newSchema, "")

RequiredPart(o, n) ==
    Flatten([i \in 1..Len(RequiredOf(n)) |->
               collectBreakingChanges(
                   Project(o, {"required"}),
                   Obj(<< <<"required", Arr(<<RequiredOf(n)[i]>>)>> >>), "")], 1)

PropertiesPart(o, n) ==
    Flatten([j \in 1..Len(PropertiesOf(o).v) |->
               collectBreakingChanges(
                   Obj(<< <<"properties", Obj(<<PropertiesOf(o).v[j]>>)>> >>),
                   Project(n, {"properties"}), "")], 1)

RemainingPart(o, n) ==
    IF isObject(o)
    THEN Flatten([i \in 1..Len(o.v) |->
                    IF o.v[i][1] \in HandledKeywords THEN << >>
                    ELSE collectBreakingChanges(
                             Obj(<<o.v[i]>>), Project(n, {o.v[i][1]}), "")], 1)
    ELSE << >>

KeywordPart(o, n, key) ==
    collectBreakingChanges(Project(o, {key}), Project(n, {key}), "")

\* C9: the findings are those of the type keyword, then of
\* additionalProperties, then of each new required entry in the new list's
\* order, then of each old property in the old key order, then of each
\* remaining old keyword in the old key order.
C9_Ordering ==
    Compared =>
        reasons = KeywordPart(oldSchema, newSchema, "type")
                  \o KeywordPart(oldSchema, newSchema, "additionalProperties")
                  \o RequiredPart(oldSchema, newSchema)
                  \o PropertiesPart(oldSchema, newSchema)
                  \o RemainingPart(oldSchema, newSchema)

\* C9 witness: two entries became required, in the order the new list gives.
C9_Witness ==
    /\ Compared
    /\ RequiredOf(newSchema) = <<Str("b"), Str("a")>>
    /\ reasons = <<BecameRequired("b"), BecameRequired("a")>>

\* C10: a type keyword on one side only raises no type-changed finding, and
\* a type the new node dropped is reported as a removed keyword.
C10_TypeOnOneSide ==
    (Compared /\ isObject(oldSchema) /\ isObject(newSchema)) =>
        /\ HasOwn(oldSchema, "type") # HasOwn(newSchema, "type") =>
              typeRule(oldSchema, newSchema, "") = << >>
        /\ (HasOwn(oldSchema, "type") /\ ~HasOwn(newSchema, "type")) =>
              Count(reasons, "<root>: keyword \"type\" was removed") = 1

====
